---- MODULE Spec2Model ----
(***************************************************************************)
(* A model of hf_to_R2.py: the Hugging Face -> R2 monthly partition        *)
(* mirror.  main() walks a fixed list of repositories; for each one        *)
(* process_dataset_by_month loads the data, rewrites the cached parquet    *)
(* file of every month that is recent (or of every month under             *)
(* --overwrite-cache) and hands the cache directory to rclone.             *)
(***************************************************************************)
EXTENDS Integers, Sequences, FiniteSets, TLC

VARIABLES
    args,           \* parsed command line: [overwrite_cache, force_sync]
    now,            \* the wall clock read by datetime.now(): <<year, month, day>>
    source,         \* the data the provider serves: repo id -> (month key -> rows)
    idx,            \* position of main's for loop in REPO_IDS
    pc,             \* where the program is: "call", "loop", "sync", "done", "crashed"
    df,             \* the loaded data of the current dataset: month key -> rows
    months,         \* the month keys the for loop of line 190 has still to visit
    recent_months,  \* the list computed by lines 178-185
    cache,          \* files of CACHE_DIR: file name -> [size, mtime]
    bucket,         \* objects of the R2 bucket: object key -> [size, mtime]
    cache0,         \* the cache directory as it was when the program started
    attempted,      \* history: repo ids process_dataset_by_month was called with
    visited,        \* history: month keys visited for the current dataset
    written,        \* history: cache files written by to_parquet in this run
    syncs,          \* history: the repo names sync_files_to_r2 ran rclone for
    failed,         \* history: datasets whose transfer (or, in Policy A, fetch) failed
    crashCause,     \* history: the exception that ended the program, or "none"
    ledger,         \* Policy A: changelog record of each dataset (0 = absent)
    lastModified,   \* Policy A: the source's lastModified of each dataset
    uploads,        \* Policy A: objects put by the current run, per dataset
    loaded,         \* Policy A: datasets the current run loaded
    snapshot,       \* Policy A: ledger and lastModified when the previous run ended
    runs            \* Policy A: number of runs completed

vars == <<args, now, source, idx, pc, df, months, recent_months, cache, bucket, cache0,
          attempted, visited, written, syncs, failed, crashCause,
          ledger, lastModified, uploads, loaded, snapshot, runs>>

policyA == <<ledger, lastModified, uploads, loaded, snapshot, runs>>

(***************************************************************************)
(* Strings the program builds are modelled by their characters where the   *)
(* program computes with them (month keys), and by their parts where it    *)
(* only concatenates (file names, object keys).                            *)
(***************************************************************************)

\* main(): the list the for loop walks, each id split at "/".
REPO_IDS ==
    << <<"paperswithbacktest", "Stocks-Daily-Price">>,
       <<"paperswithbacktest", "ETFs-Daily-Price">>,
       <<"paperswithbacktest", "Indices-Daily-Price">>,
       <<"paperswithbacktest", "Cryptocurrencies-Daily-Price">>,
       <<"paperswithbacktest", "Bonds-Daily-Price">>,
       <<"paperswithbacktest", "Forex-Daily-Price">>,
       <<"paperswithbacktest", "Commodities-Daily-Price">> >>

\* str.lower() on the names the program meets.
Lower(s) ==
    CASE s = "Stocks-Daily-Price" -> "stocks-daily-price"
      [] s = "ETFs-Daily-Price" -> "etfs-daily-price"
      [] s = "Indices-Daily-Price" -> "indices-daily-price"
      [] s = "Cryptocurrencies-Daily-Price" -> "cryptocurrencies-daily-price"
      [] s = "Bonds-Daily-Price" -> "bonds-daily-price"
      [] s = "Forex-Daily-Price" -> "forex-daily-price"
      [] s = "Commodities-Daily-Price" -> "commodities-daily-price"
      [] OTHER -> s

\* repo_id.split("/")[-1].lower()
RepoName(repo_id) == Lower(repo_id[Len(repo_id)])

RepoNames == {RepoName(REPO_IDS[i]) : i \in 1..Len(REPO_IDS)}

Digits == <<"0", "1", "2", "3", "4", "5", "6", "7", "8", "9">>

Digit(n) == Digits[n + 1]

\* strftime("%Y.%m"): four digits of the year, a dot, two digits of the month.
Strftime(y, m) ==
    << Digit(y \div 1000), Digit((y \div 100) % 10), Digit((y \div 10) % 10),
       Digit(y % 10), ".", Digit(m \div 10), Digit(m % 10) >>

\* The code point order of the characters of a month key ("." sorts below "0").
Ord(c) == IF c = "." THEN 0 ELSE CHOOSE n \in 1..10 : Digits[n] = c

\* Python's str <: lexicographic on code points, a proper prefix being smaller.
StrLess(a, b) ==
    \E k \in 1..(Len(b)) :
        /\ \A j \in 1..(k - 1) : j <= Len(a) /\ a[j] = b[j]
        /\ \/ k = Len(a) + 1
           \/ k <= Len(a) /\ Ord(a[k]) < Ord(b[k])

RECURSIVE SortedForward(_)
\* sorted(S) without reverse=True.
SortedForward(S) ==
    IF S = {} THEN <<>>
    ELSE LET low == CHOOSE x \in S : \A y \in S \ {x} : StrLess(x, y)
         IN  <<low>> \o SortedForward(S \ {low})

RECURSIVE SortedReverse(_)
\* sorted(S, reverse=True)
SortedReverse(S) ==
    IF S = {} THEN <<>>
    ELSE LET top == CHOOSE x \in S : \A y \in S \ {x} : StrLess(y, x)
         IN  <<top>> \o SortedReverse(S \ {top})

\* MonthDate without the borrow from the year.
MonthDateNoBorrow(date, i) == <<date[1], ((date[2] - 1 - i) % 12) + 1, 1>>

\* current_date.replace(day=1) - pd.DateOffset(months=i), as <<year, month, day>>.
MonthDate(date, i) ==
    LET total == date[1] * 12 + (date[2] - 1) - i
    IN  <<total \div 12, (total % 12) + 1, 1>>

RECURSIVE RecentFrom(_, _, _)
RecentFrom(date, i, n) ==
    IF i >= n THEN <<>>
    ELSE LET month_date == MonthDate(date, i)
         IN  <<Strftime(month_date[1], month_date[2])>> \o RecentFrom(date, i + 1, n)

\* range(6) of line 181
WindowMonths == 6

\* lines 177-185: the current month and the five before it, newest first.
RecentMonths(date) == RecentFrom(date, 0, WindowMonths)

Range(s) == {s[i] : i \in DOMAIN s}

\* get_cache_file_path: f"{repo_name}_{month}.parquet" inside CACHE_DIR.
get_cache_file_path(repo_name, month) ==
    [stem |-> repo_name, sep |-> "_", key |-> month, ext |-> ".parquet"]

\* rclone_config_path: rclone.conf inside CACHE_DIR (line 92).
rclone_config_path == [stem |-> "rclone", sep |-> "", key |-> <<>>, ext |-> ".conf"]

\* rclone's --include f"{repo_name}_*.parquet" applied to a file name.
Included(repo_name, name) ==
    /\ name.stem = repo_name
    /\ name.sep = "_"
    /\ name.ext = ".parquet"

\* dest_path f"r2:/{R2_BUCKET_NAME}/ds/{repo_name}/" joined with a file's name.
DestKey(repo_name, name) == [dir |-> <<"ds", repo_name>>, name |-> name]


(***************************************************************************)
(* The external transfer utility.  rclone applies the --include filter to  *)
(* both sides, stores a file's modification time with the object it        *)
(* uploads, never deletes in copy mode and, in sync mode, deletes the      *)
(* filtered destination objects that have no source file.                  *)
(***************************************************************************)

EmptyMap == [n \in {} |-> [size |-> 0, mtime |-> 0]]

\* A map with one entry added or replaced.
Put(map, k, v) == [n \in (DOMAIN map) \cup {k} |-> IF n = k THEN v ELSE map[n]]

\* The files of source_dir that pass the filter of lines 119-120 / 131-132.
SourceFiles(files, repo_name) == {n \in DOMAIN files : Included(repo_name, n)}

\* rclone copy --size-only --update (lines 126-136): a file is transferred when
\* the destination lacks it, or when the sizes differ and the destination is
\* not newer than the source.
CopyNeeds(files, objects, repo_name) ==
    {n \in SourceFiles(files, repo_name) :
        LET k == DestKey(repo_name, n)
        IN  \/ k \notin DOMAIN objects
            \/ /\ objects[k].size # files[n].size
               /\ objects[k].mtime <= files[n].mtime}

\* rclone sync (lines 114-122): a file is transferred when the destination lacks
\* it or differs from it in size or modification time.
SyncNeeds(files, objects, repo_name) ==
    {n \in SourceFiles(files, repo_name) :
        LET k == DestKey(repo_name, n)
        IN  \/ k \notin DOMAIN objects
            \/ objects[k] # files[n]}

\* rclone sync: the destination objects it deletes, those under dest_path that
\* pass the filter and have no source file.
SyncDeletes(files, objects, repo_name) ==
    {k \in DOMAIN objects :
        /\ k.dir = <<"ds", repo_name>>
        /\ Included(repo_name, k.name)
        /\ k.name \notin DOMAIN files}

\* The bucket after the files `sent` were uploaded and the objects `gone` deleted.
Transferred(files, objects, repo_name, sent, gone) ==
    LET keys == ((DOMAIN objects) \ gone) \cup {DestKey(repo_name, n) : n \in sent}
    IN  [k \in keys |->
            IF \E n \in sent : DestKey(repo_name, n) = k
            THEN files[k.name]
            ELSE objects[k]]

\* RcloneRun with the sync command chosen whatever the flag.
RcloneRunAlwaysSync(files, objects, repo_name, force_sync) ==
    Transferred(files, objects, repo_name,
                SyncNeeds(files, objects, repo_name),
                SyncDeletes(files, objects, repo_name))

\* cmd of lines 112-140, run to completion with exit status 0.
RcloneRun(files, objects, repo_name, force_sync) ==
    IF force_sync
    THEN Transferred(files, objects, repo_name,
                     SyncNeeds(files, objects, repo_name),
                     SyncDeletes(files, objects, repo_name))
    ELSE Transferred(files, objects, repo_name,
                     CopyNeeds(files, objects, repo_name), {})

\* The transfers a run of cmd has to make.
RclonePlan(files, objects, repo_name, force_sync) ==
    IF force_sync THEN SyncNeeds(files, objects, repo_name)
    ELSE CopyNeeds(files, objects, repo_name)

(***************************************************************************)
(* The environment a run starts in and the data the source serves.         *)
(***************************************************************************)

\* Wall-clock dates of a run: mid March 2024 and the last day of January 2024.
\* datetime.now() is read once per dataset; a run is taken not to span the end
\* of a month, so every dataset of a run sees the same date.
Dates == { <<2024, 3, 15>>, <<2024, 1, 31>> }

\* Modification times of what exists before the run: 0..MaxInitStamp.
MaxInitStamp == 1

\* The modification time to_parquet leaves on a file it writes in this run.
RunStamp == MaxInitStamp + 1

KeyOld == Strftime(2022, 12)
KeyAutumn == Strftime(2023, 9)
KeyNew == Strftime(2024, 2)
KeyGone == Strftime(2021, 5)

\* What load_dataset(...)["train"] may hold: month key -> size of the month's rows.
LongHistory == [k \in {KeyOld, KeyAutumn, KeyNew} |-> 1]
ShortHistory == [k \in {KeyAutumn, KeyNew} |-> 2]

\* What the provider serves for the repositories of the list.
Sources ==
    { [r \in Range(REPO_IDS) |-> LongHistory],
      [r \in Range(REPO_IDS) |->
          IF \E i \in 1..Len(REPO_IDS) : REPO_IDS[i] = r /\ i % 2 = 1
          THEN LongHistory ELSE ShortHistory] }

\* Objects another writer left under ds/<repo_name>/: the changelog and a
\* partition stored under its bare month key.
ForeignNames ==
    { [stem |-> "changelog", sep |-> "", key |-> <<>>, ext |-> ""],
      [stem |-> "", sep |-> "", key |-> KeyAutumn, ext |-> ".parquet"] }

\* A cache directory left by earlier runs: partition files and the rclone.conf
\* that sync_files_to_r2 leaves behind.
EstablishedCache ==
    LET names == {get_cache_file_path(r, m) : r \in RepoNames, m \in {KeyOld, KeyAutumn}}
    IN  [n \in names \cup {rclone_config_path} |-> [size |-> 1, mtime |-> 0]]

\* A bucket left by earlier runs: an old partition uploaded later and with another
\* size, a partition whose cache file is gone, and the foreign objects.
EstablishedBucket ==
    LET own == {DestKey(r, get_cache_file_path(r, m)) : r \in RepoNames, m \in {KeyOld, KeyGone}}
        foreign == {DestKey(r, n) : r \in RepoNames, n \in ForeignNames}
    IN  [k \in own \cup foreign |->
            IF k.name.key = KeyOld /\ k.name.sep = "_"
            THEN [size |-> 2, mtime |-> MaxInitStamp]
            ELSE [size |-> 1, mtime |-> 0]]

Environments ==
    { [cache |-> EmptyMap, bucket |-> EmptyMap],
      [cache |-> EstablishedCache, bucket |-> EstablishedBucket] }

(***************************************************************************)
(* The program.                                                            *)
(***************************************************************************)

Init ==
    /\ args \in [overwrite_cache : BOOLEAN, force_sync : BOOLEAN]
    /\ now \in Dates
    /\ source \in Sources
    /\ \E env \in Environments :
          /\ cache = env.cache
          /\ bucket = env.bucket
          /\ cache0 = env.cache
    /\ idx = 1
    /\ pc = "call"
    /\ df = EmptyMap
    /\ months = <<>>
    /\ recent_months = <<>>
    /\ attempted = <<>>
    /\ visited = <<>>
    /\ written = {}
    /\ syncs = <<>>
    /\ failed = {}
    /\ crashCause = "none"
    /\ ledger = EmptyMap
    /\ lastModified = EmptyMap
    /\ uploads = EmptyMap
    /\ loaded = {}
    /\ snapshot = EmptyMap
    /\ runs = 0

repo_name == RepoName(REPO_IDS[idx])

\* ShouldProcess without the recent-month test: a month is rewritten whenever its
\* cache file is missing or the flag is set.
ShouldProcessIfMissing(month) ==
    \/ args.overwrite_cache
    \/ get_cache_file_path(repo_name, month) \notin DOMAIN cache
    \/ month \in Range(recent_months)

\* ShouldProcess without the flag.
ShouldProcessRecentOnly(month) == month \in Range(recent_months)

\* line 194: the months the loop rewrites.
ShouldProcess(month) == args.overwrite_cache \/ month \in Range(recent_months)

\* An exception nobody catches: it leaves process_dataset_by_month and main.
Crash(cause) ==
    /\ pc' = "crashed"
    /\ crashCause' = cause

\* lines 158-188: load the data, list its months newest first, compute the window.
LoadDataset ==
    /\ pc = "call"
    /\ df' = source[REPO_IDS[idx]]
    /\ months' = SortedReverse(DOMAIN df')
    /\ recent_months' = RecentMonths(now)
    /\ attempted' = Append(attempted, REPO_IDS[idx])
    /\ visited' = <<>>
    /\ pc' = IF months' = <<>> THEN "sync" ELSE "loop"
    /\ UNCHANGED <<args, now, source, idx, cache, bucket, cache0, written, syncs, failed,
                   crashCause, policyA>>

\* lines 162-171 raising: load_dataset cannot fetch, or pd.to_datetime cannot parse.
LoadFails ==
    /\ pc = "call"
    /\ attempted' = Append(attempted, REPO_IDS[idx])
    /\ \E cause \in {"fetch", "date"} : Crash(cause)
    /\ UNCHANGED <<args, now, source, idx, df, months, recent_months, cache, bucket, cache0,
                   visited, written, syncs, failed, policyA>>

\* Leaving one iteration of the loop of line 190.
NextMonth ==
    /\ visited' = Append(visited, Head(months))
    /\ months' = Tail(months)
    /\ pc' = IF Tail(months) = <<>> THEN "sync" ELSE "loop"

\* lines 191-218: the month's rows are written over the cache file.
WriteMonth ==
    /\ pc = "loop"
    /\ ShouldProcess(Head(months))
    /\ LET cache_file == get_cache_file_path(repo_name, Head(months))
       IN  /\ cache' = Put(cache, cache_file,
                           [size |-> df[Head(months)], mtime |-> RunStamp])
           /\ written' = written \cup {cache_file}
    /\ NextMonth
    /\ UNCHANGED <<args, now, source, idx, df, recent_months, bucket, cache0, attempted,
                   syncs, failed, crashCause, policyA>>

\* lines 209-215 raising: to_parquet cannot write the file.
WriteFails ==
    /\ pc = "loop"
    /\ ShouldProcess(Head(months))
    /\ Crash("write")
    /\ UNCHANGED <<args, now, source, idx, df, months, recent_months, cache, bucket, cache0,
                   attempted, visited, written, syncs, failed, policyA>>

\* lines 219-222: the month is neither recent nor forced.
SkipMonth ==
    /\ pc = "loop"
    /\ ~ShouldProcess(Head(months))
    /\ NextMonth
    /\ UNCHANGED <<args, now, source, idx, df, recent_months, cache, bucket, cache0,
                   attempted, written, syncs, failed, crashCause, policyA>>

\* lines 92-103: the rclone configuration is written into CACHE_DIR.
WithConfig(files) == Put(files, rclone_config_path, [size |-> 1, mtime |-> RunStamp])

\* process_dataset_by_month returns and main's loop takes the next repo id.
Return ==
    /\ idx' = idx + 1
    /\ pc' = IF idx = Len(REPO_IDS) THEN "done" ELSE "call"

\* TransferFailure with the exception re-raised.
TransferFailureRaised ==
    /\ failed' = failed \cup {repo_name}
    /\ Crash("transfer")
    /\ UNCHANGED idx

\* The except clause of lines 147-150: the error is printed, nothing is raised.
TransferFailure ==
    /\ failed' = failed \cup {repo_name}
    /\ Return
    /\ UNCHANGED crashCause

\* lines 143-146: rclone exits 0.
SyncSucceeds ==
    /\ pc = "sync"
    /\ syncs' = Append(syncs, repo_name)
    /\ cache' = WithConfig(cache)
    /\ bucket' = RcloneRun(cache', bucket, repo_name, args.force_sync)
    /\ Return
    /\ UNCHANGED <<args, now, source, df, months, recent_months, cache0, attempted,
                   visited, written, failed, crashCause, policyA>>

\* lines 147-150: rclone exits non-zero, having made some of its transfers and,
\* as it does after errors, no deletion.
SyncFails ==
    /\ pc = "sync"
    /\ syncs' = Append(syncs, repo_name)
    /\ cache' = WithConfig(cache)
    /\ \E sent \in {{}, RclonePlan(cache', bucket, repo_name, args.force_sync)} :
          bucket' = Transferred(cache', bucket, repo_name, sent, {})
    /\ TransferFailure
    /\ UNCHANGED <<args, now, source, df, months, recent_months, cache0, attempted,
                   visited, written, policyA>>

\* line 144 raising something other than CalledProcessError: rclone is not installed.
SyncCannotStart ==
    /\ pc = "sync"
    /\ syncs' = Append(syncs, repo_name)
    /\ cache' = WithConfig(cache)
    /\ Crash("spawn")
    /\ UNCHANGED <<args, now, source, idx, df, months, recent_months, bucket, cache0,
                   attempted, visited, written, failed, policyA>>

Next ==
    \/ LoadDataset
    \/ LoadFails
    \/ WriteMonth
    \/ WriteFails
    \/ SkipMonth
    \/ SyncSucceeds
    \/ SyncFails
    \/ SyncCannotStart

Spec == Init /\ [][Next]_vars


(***************************************************************************)
(* The window computation on its own, over every date of a few years.      *)
(***************************************************************************)

\* The years after 2023 the window is computed for.
YearSpan == 2

LeapYear(y) == (y % 4 = 0 /\ y % 100 # 0) \/ y % 400 = 0

DaysInMonth(y, m) ==
    IF m = 2 THEN (IF LeapYear(y) THEN 29 ELSE 28)
    ELSE IF m \in {4, 6, 9, 11} THEN 30 ELSE 31

\* Calendar dates: the first, the middle and the last days of every month.
WindowDates ==
    {d \in (2023..(2023 + YearSpan)) \X (1..12) \X {1, 15, 28, 29, 30, 31} :
        d[3] <= DaysInMonth(d[1], d[2])}

InitWindow ==
    /\ args = [overwrite_cache |-> FALSE, force_sync |-> FALSE]
    /\ now \in WindowDates
    /\ source = [r \in Range(REPO_IDS) |-> LongHistory]
    /\ cache = EmptyMap
    /\ bucket = EmptyMap
    /\ cache0 = EmptyMap
    /\ idx = 1
    /\ pc = "window"
    /\ df = EmptyMap
    /\ months = <<>>
    /\ recent_months = <<>>
    /\ attempted = <<>>
    /\ visited = <<>>
    /\ written = {}
    /\ syncs = <<>>
    /\ failed = {}
    /\ crashCause = "none"
    /\ ledger = EmptyMap
    /\ lastModified = EmptyMap
    /\ uploads = EmptyMap
    /\ loaded = {}
    /\ snapshot = EmptyMap
    /\ runs = 0

\* lines 177-185 alone.
ComputeWindow ==
    /\ pc = "window"
    /\ recent_months' = RecentMonths(now)
    /\ pc' = "windowed"
    /\ UNCHANGED <<args, now, source, idx, df, months, cache, bucket, cache0,
                   attempted, visited, written, syncs, failed, crashCause, policyA>>

SpecWindow == InitWindow /\ [][ComputeWindow]_vars

(***************************************************************************)
(* Policy A: the existence-gated upload with a changelog per dataset.      *)
(* Its program is not among the sources; it is modelled from sections 4.2  *)
(* and 4.3 of the specification.                                           *)
(***************************************************************************)

\* The datasets Policy A walks: the first NumDatasetsA of the list.
NumDatasetsA == 2

\* The runs after the first that are followed.
MaxRunsA == 2

\* The largest lastModified stamp the source reaches.
MaxModified == 3

DatasetsA == {REPO_IDS[i] : i \in 1..NumDatasetsA}

\* Section 3: a partition's object key, ds/<dataset>/<partition-key>.parquet.
PartitionKeyObjectA(r, k) ==
    [dir |-> <<"ds", r>>, name |-> [stem |-> "", sep |-> "", key |-> k, ext |-> ".parquet"]]

\* Section 4.2 with >= replaced by >.
UnchangedStrict(d) ==
    /\ d \in DOMAIN ledger
    /\ ledger[d].last_update > lastModified[d]

\* Section 4.2: unchanged since the last run iff a record exists and its
\* last_update is not older than the source's lastModified.
Unchanged(d) ==
    /\ d \in DOMAIN ledger
    /\ ledger[d].last_update >= lastModified[d]

InitA ==
    /\ args = [overwrite_cache |-> FALSE, force_sync |-> FALSE]
    /\ now \in Dates
    /\ source \in Sources
    /\ cache = EmptyMap
    /\ bucket = EmptyMap
    /\ cache0 = EmptyMap
    /\ idx = 1
    /\ pc = "call"
    /\ df = EmptyMap
    /\ months = <<>>
    /\ recent_months = <<>>
    /\ attempted = <<>>
    /\ visited = <<>>
    /\ written = {}
    /\ syncs = <<>>
    /\ failed = {}
    /\ crashCause = "none"
    /\ ledger = EmptyMap
    /\ lastModified = [d \in DatasetsA |-> 1]
    /\ uploads = [d \in DatasetsA |-> 0]
    /\ loaded = {}
    /\ snapshot = [ledger |-> EmptyMap, lastModified |-> [d \in DatasetsA |-> 0]]
    /\ runs = 0

frameA == <<args, now, cache, cache0, recent_months, attempted, visited, written,
            syncs, crashCause>>

ReturnA ==
    /\ idx' = idx + 1
    /\ pc' = IF idx = NumDatasetsA THEN "done" ELSE "call"

\* Section 4.3 step 1: the source's timestamp cannot be fetched; log and return.
A_MetadataUnavailable ==
    /\ pc = "call"
    /\ failed' = failed \cup {REPO_IDS[idx]}
    /\ ReturnA
    /\ UNCHANGED <<frameA, source, df, months, bucket, ledger, lastModified,
                   uploads, loaded, snapshot, runs>>

\* Section 4.3 step 2: the record is not older than the source; skip the dataset.
A_SkipDataset ==
    /\ pc = "call"
    /\ Unchanged(REPO_IDS[idx])
    /\ ReturnA
    /\ UNCHANGED <<frameA, failed, source, df, months, bucket, ledger, lastModified,
                   uploads, loaded, snapshot, runs>>

\* Section 4.3 step 3: load the dataset and list its partition keys, latest first.
A_LoadDataset ==
    /\ pc = "call"
    /\ ~Unchanged(REPO_IDS[idx])
    /\ df' = source[REPO_IDS[idx]]
    /\ months' = SortedReverse(DOMAIN df')
    /\ loaded' = loaded \cup {REPO_IDS[idx]}
    /\ pc' = IF months' = <<>> THEN "ledger" ELSE "loop"
    /\ UNCHANGED <<frameA, failed, source, idx, bucket, ledger, lastModified, uploads,
                   snapshot, runs>>

\* Section 4.3 step 3: one partition; uploaded unless an object exists at its key.
A_Partition ==
    /\ pc = "loop"
    /\ LET d == REPO_IDS[idx]
           k == PartitionKeyObjectA(RepoName(d), Head(months))
       IN  IF k \in DOMAIN bucket
           THEN UNCHANGED <<bucket, uploads>>
           ELSE /\ bucket' = Put(bucket, k, [size |-> df[Head(months)], mtime |-> RunStamp])
                /\ uploads' = [uploads EXCEPT ![d] = @ + 1]
    /\ months' = Tail(months)
    /\ pc' = IF Tail(months) = <<>> THEN "ledger" ELSE "loop"
    /\ UNCHANGED <<frameA, failed, source, idx, df, ledger, lastModified, loaded,
                   snapshot, runs>>

\* Section 4.3 step 4: the record is written with the source's lastModified.
A_WriteLedger ==
    /\ pc = "ledger"
    /\ ledger' = Put(ledger, REPO_IDS[idx], [last_update |-> lastModified[REPO_IDS[idx]]])
    /\ ReturnA
    /\ UNCHANGED <<frameA, failed, source, df, months, bucket, lastModified, uploads,
                   loaded, snapshot, runs>>

\* The program is started again; in between the source may have published new
\* data for some datasets.
A_NextRun ==
    /\ pc = "done"
    /\ runs < MaxRunsA
    /\ runs' = runs + 1
    /\ snapshot' = [ledger |-> ledger, lastModified |-> lastModified]
    /\ \E changed \in SUBSET DatasetsA :
          /\ \A d \in changed : lastModified[d] < MaxModified
          /\ lastModified' = [d \in DatasetsA |->
                                 IF d \in changed THEN lastModified[d] + 1
                                 ELSE lastModified[d]]
          /\ source' = [r \in Range(REPO_IDS) |->
                           IF r \in changed THEN ShortHistory ELSE source[r]]
    /\ uploads' = [d \in DatasetsA |-> 0]
    /\ loaded' = {}
    /\ failed' = {}
    /\ idx' = 1
    /\ pc' = "call"
    /\ UNCHANGED <<frameA, df, months, bucket, ledger>>

NextA ==
    \/ A_MetadataUnavailable
    \/ A_SkipDataset
    \/ A_LoadDataset
    \/ A_Partition
    \/ A_WriteLedger
    \/ A_NextRun

SpecA == InitA /\ [][NextA]_vars

(***************************************************************************)
(* Reading a month key back, for the statements below.                     *)
(***************************************************************************)

DigitValue(c) == Ord(c) - 1

WellFormedKey(k) ==
    /\ Len(k) = 7
    /\ k[5] = "."
    /\ \A i \in {1, 2, 3, 4, 6, 7} : \E n \in 1..10 : Digits[n] = k[i]

KeyYear(k) ==
    1000 * DigitValue(k[1]) + 100 * DigitValue(k[2]) + 10 * DigitValue(k[3])
        + DigitValue(k[4])

KeyMonth(k) == 10 * DigitValue(k[6]) + DigitValue(k[7])

\* The calendar month before <<year, month>>.
PrevMonth(ym) == IF ym[2] = 1 THEN <<ym[1] - 1, 12>> ELSE <<ym[1], ym[2] - 1>>

RECURSIVE MonthsBack(_, _)
MonthsBack(ym, n) == IF n = 0 THEN ym ELSE MonthsBack(PrevMonth(ym), n - 1)

\* The calendar months of the recent window of a date.
WindowOf(date) == {MonthsBack(<<date[1], date[2]>>, n) : n \in 0..5}

InWindow(k, date) == <<KeyYear(k), KeyMonth(k)>> \in WindowOf(date)

\* m1 is an earlier calendar month than m2.
Earlier(k1, k2) ==
    \/ KeyYear(k1) < KeyYear(k2)
    \/ KeyYear(k1) = KeyYear(k2) /\ KeyMonth(k1) < KeyMonth(k2)

\* A file of CACHE_DIR that holds a partition of one of the datasets.
IsPartitionFile(n) == \E r \in RepoNames : Included(r, n)

\* The datasets sync_files_to_r2 finished for with rclone's exit status 0.
Succeeded ==
    {r \in Range(syncs) :
        /\ r \notin failed
        /\ ~(crashCause = "spawn" /\ r = syncs[Len(syncs)])}

\* The object key ds/<dataset>/<YYYY.MM>.parquet.
PartitionKeyObject(r, k) == PartitionKeyObjectA(r, k)

(***************************************************************************)
(* The claims.                                                             *)
(***************************************************************************)

\* C1: with --overwrite-cache unset, the cache file of every dataset and every
\* month outside the recent window is as it was when the run started: not
\* written, not replaced, not removed, and absent if it was absent.
C1_OldMonthsUntouched ==
    ~args.overwrite_cache =>
        LET window == WindowOf(now)
        IN  \A n \in {f \in (DOMAIN cache) \cup (DOMAIN cache0) : IsPartitionFile(f)} :
                <<KeyYear(n.key), KeyMonth(n.key)>> \notin window =>
                    /\ n \notin written
                    /\ n \in DOMAIN cache
                    /\ n \in DOMAIN cache0
                    /\ cache[n] = cache0[n]

\* C1 witness: a run without the flag has ended, having written recent months;
\* the data held a month outside the window that was cached from the start and
\* a month outside the window that has no cache file.
C1_Witness ==
    /\ pc = "done"
    /\ ~args.overwrite_cache
    /\ written # {}
    /\ \E i \in 1..Len(REPO_IDS) :
          /\ KeyOld \in DOMAIN source[REPO_IDS[i]]
          /\ ~InWindow(KeyOld, now)
          /\ get_cache_file_path(RepoName(REPO_IDS[i]), KeyOld) \in DOMAIN cache0
    /\ \E i \in 1..Len(REPO_IDS) :
          /\ KeyNew \in DOMAIN source[REPO_IDS[i]]
          /\ ~InWindow(KeyNew, now)
          /\ get_cache_file_path(RepoName(REPO_IDS[i]), KeyNew) \notin DOMAIN cache

\* C2: once the loop over a dataset's months has ended, a month of the loaded
\* data has had its cache file written from the data in this run exactly when
\* --overwrite-cache is set or the month is in the recent window; the same holds
\* of every month visited so far while the loop runs.
C2_WrittenIffForcedOrRecent ==
    pc \in {"loop", "sync"} =>
        /\ pc = "sync" => Range(visited) = DOMAIN df
        /\ \A m \in Range(visited) :
              LET f == get_cache_file_path(repo_name, m)
              IN  (/\ f \in written
                   /\ f \in DOMAIN cache
                   /\ cache[f] = [size |-> df[m], mtime |-> RunStamp])
                  <=> (args.overwrite_cache \/ InWindow(m, now))

\* C2 witness: the loop has ended with one month written and one month skipped.
C2_Witness ==
    /\ pc = "sync"
    /\ \E m \in DOMAIN df : get_cache_file_path(repo_name, m) \in written
    /\ \E m \in DOMAIN df : get_cache_file_path(repo_name, m) \notin written

\* C3: the window is the six distinct keys of the current calendar month and the
\* five months before it, across a year boundary too; on 2024-03-15 it is
\* 2024.03, 2024.02, 2024.01, 2023.12, 2023.11, 2023.10.
C3_RecentWindow ==
    pc = "windowed" =>
        /\ Len(recent_months) = 6
        /\ Cardinality(Range(recent_months)) = 6
        /\ \A i \in 1..6 :
              /\ WellFormedKey(recent_months[i])
              /\ <<KeyYear(recent_months[i]), KeyMonth(recent_months[i])>>
                    = MonthsBack(<<now[1], now[2]>>, i - 1)
        /\ now = <<2024, 3, 15>> =>
              Range(recent_months) =
                  { <<"2", "0", "2", "4", ".", "0", "3">>,
                    <<"2", "0", "2", "4", ".", "0", "2">>,
                    <<"2", "0", "2", "4", ".", "0", "1">>,
                    <<"2", "0", "2", "3", ".", "1", "2">>,
                    <<"2", "0", "2", "3", ".", "1", "1">>,
                    <<"2", "0", "2", "3", ".", "1", "0">> }

\* C3 witness: the window of 2024-03-15 has been computed and reaches into 2023.
C3_Witness ==
    /\ pc = "windowed"
    /\ now = <<2024, 3, 15>>
    /\ KeyYear(recent_months[6]) = 2023

\* C4: in copy mode no step removes an object from the bucket, whether or not
\* the object has a file in the cache and whether or not rclone succeeds.
C4_CopyNeverRemoves ==
    [][~args.force_sync => \A k \in DOMAIN bucket : k \in DOMAIN bucket']_vars

\* C4 witness: a copy-mode run has ended, has uploaded a file written in this
\* run, and the bucket still holds an object that passes the filter and has no
\* cache file.
C4_Witness ==
    /\ pc = "done"
    /\ ~args.force_sync
    /\ \E k \in DOMAIN bucket : bucket[k].mtime = RunStamp
    /\ \E k \in DOMAIN bucket :
          /\ Included(k.dir[2], k.name)
          /\ k.name \notin DOMAIN cache

\* C5: after a successful sync-mode transfer for a dataset, the objects under
\* ds/<dataset>/ are exactly that dataset's cache files.
C5_PrefixMirrorsCache ==
    args.force_sync =>
        \A r \in Succeeded :
            {k.name : k \in {o \in DOMAIN bucket : o.dir = <<"ds", r>>}}
                = SourceFiles(cache, r)

\* C6: an rclone run that exits non-zero ends nothing: main has moved past every
\* dataset whose transfer failed, the datasets are attempted in list order, a
\* crash never comes from the transfer, and a run that reaches its end has
\* attempted every dataset.
C6_TransferFailureIsolated ==
    /\ \A i \in 1..Len(REPO_IDS) : RepoName(REPO_IDS[i]) \in failed => i < idx
    /\ crashCause # "transfer"
    /\ attempted = SubSeq(REPO_IDS, 1, Len(attempted))
    /\ pc = "done" => attempted = REPO_IDS

\* C6 witness: the transfer of the first dataset failed and the run went through
\* the whole list.
C6_Witness ==
    /\ pc = "done"
    /\ RepoName(REPO_IDS[1]) \in failed
    /\ attempted = REPO_IDS

\* C7: whatever fails while a dataset is processed, every later dataset of the
\* list is still attempted: the program never ends before it has attempted all.
C7_FailuresIsolated ==
    pc \in {"done", "crashed"} => attempted = REPO_IDS

\* C8: every partition of a dataset whose transfer succeeded is stored under
\* ds/<dataset>/<YYYY.MM>.parquet and under no other key.
C8_PartitionObjectKey ==
    \A r \in Succeeded :
        \A n \in SourceFiles(cache, r) :
            /\ PartitionKeyObject(r, n.key) \in DOMAIN bucket
            /\ DestKey(r, n) \notin DOMAIN bucket

\* The state part of C10.
C10_Order ==
    /\ attempted = SubSeq(REPO_IDS, 1, Len(attempted))
    /\ Len(attempted) \in {idx - 1, idx}
    /\ pc \in {"loop", "sync"} => Len(attempted) = idx
    /\ \A i, j \in 1..Len(visited) : i < j => Earlier(visited[j], visited[i])
    /\ pc = "loop" => Range(visited) \cup Range(months) = DOMAIN df
    /\ pc = "sync" => Range(visited) = DOMAIN df /\ Len(visited) = Cardinality(DOMAIN df)
    /\ \A i \in 1..Len(REPO_IDS) :
          Cardinality({j \in 1..Len(syncs) : syncs[j] = RepoName(REPO_IDS[i])})
              = IF i < idx \/ (i = idx /\ crashCause = "spawn") THEN 1 ELSE 0

\* The step part of C10.
C10_Frame ==
    /\ \A n \in (DOMAIN cache) \cup (DOMAIN cache') :
          (n \notin DOMAIN cache \/ n \notin DOMAIN cache' \/ cache[n] # cache'[n])
              => \/ pc = "loop" /\ Included(repo_name, n)
                 \/ pc = "sync" /\ n = rclone_config_path
    /\ \A k \in (DOMAIN bucket) \cup (DOMAIN bucket') :
          (k \notin DOMAIN bucket \/ k \notin DOMAIN bucket' \/ bucket[k] # bucket'[k])
              => pc = "sync" /\ k.dir = <<"ds", repo_name>> /\ Included(repo_name, k.name)
    /\ syncs' # syncs => pc = "sync" /\ syncs' = Append(syncs, repo_name)
    /\ attempted' # attempted => pc = "call"

\* C10: datasets are taken in list order; the months of a dataset are visited
\* one at a time from the latest to the earliest; sync_files_to_r2 runs once per
\* dataset, after all its months were visited and before the next dataset is
\* loaded; the loop writes and rclone transfers the current dataset's files only.
C10_Sequential == []C10_Order /\ [][C10_Frame]_vars

\* C10 witness: the whole list was processed, one sync per dataset, and a
\* dataset of three months was walked.
C10_Witness ==
    /\ pc = "done"
    /\ Len(syncs) = Len(REPO_IDS)
    /\ Len(visited) = 3


\* C9: a Policy A run that finds, for a dataset, a recorded last_update not older
\* than the source's lastModified skips the dataset: it loads nothing, uploads
\* nothing and leaves the record as it was; so a run after which the source did
\* not change is followed by a run with zero uploads and the same records.
C9_Skip ==
    pc = "call" /\ Unchanged(REPO_IDS[idx]) =>
        /\ pc' \in {"call", "done"}
        /\ idx' = idx + 1
        /\ UNCHANGED <<bucket, ledger, uploads, loaded, df>>

\* The state part of C9: what a finished run has done to a dataset whose record
\* the previous run left not older than the source is now.
C9_Rerun ==
    pc = "done" /\ runs >= 1 =>
        \A d \in DatasetsA :
            (/\ d \in DOMAIN snapshot.ledger
             /\ snapshot.ledger[d].last_update >= lastModified[d])
            => /\ uploads[d] = 0
               /\ d \notin loaded
               /\ ledger[d] = snapshot.ledger[d]

\* C9: idempotence of Policy A, as a step property and as the result of a rerun.
C9_Idempotent == []C9_Rerun /\ [][C9_Skip]_vars

\* C9 witness: a second run has ended after a first run that uploaded and
\* recorded every dataset, the source unchanged in between.
C9_Witness ==
    /\ pc = "done"
    /\ runs = 1
    /\ lastModified = snapshot.lastModified
    /\ DOMAIN snapshot.ledger = DatasetsA
    /\ \A d \in DatasetsA : uploads[d] = 0 /\ ledger[d].last_update = lastModified[d]
    /\ bucket # EmptyMap

====
